---- MODULE Spec2Model ----
(***************************************************************************)
(* Model of dynamodb/helper.go: the conversion between Go values (Any) and *)
(* SDK.AttributeValue (createAttributeValue / Marshal) and back            *)
(* (getItemValue / Unmarshal).                                             *)
(*                                                                         *)
(* Representation                                                          *)
(*   Go value (Any)      a pair <<kind, payload>>, kind the dynamic type   *)
(*   Go string           a sequence of one-character strings               *)
(*   Go pointer          <<>> for nil, <<x>> for a pointer to x            *)
(*   Go slice            <<>> for the nil slice, <<s>> for a slice of      *)
(*                       contents s (s = <<>> is the empty non-nil slice)  *)
(*   Go map              a function from keys to values                    *)
(*   SDK.AttributeValue  a record with the slots S N B BOOL SS BS NS M L   *)
(*   integers            two's complement of Bits32 and Bits64 bits, which *)
(*                       stand for Go's 32 and 64 bit types; the width of  *)
(*                       int and uint (strconv.IntSize) is chosen by Init  *)
(*   floats              a count of halves: h stands for h/2               *)
(* The elements of the NS and SS slots are pointers in Go; the wire values *)
(* modelled here hold no nil element, so the slots hold the strings.       *)
(***************************************************************************)
EXTENDS Integers, Sequences, FiniteSets, TLC

VARIABLES intSize, pc, v, tv, out, item, wire, rec

vars == <<intSize, pc, v, tv, out, item, wire, rec>>

\* Width, in bits, of the model's 32 bit integer types.
Bits32 == 4
\* Width, in bits, of the model's 64 bit integer types.
Bits64 == 5
\* Longest sequence handed to the encoder.
MaxLen == 2

RECURSIVE Pow2(_)
Pow2(n) == IF n = 0 THEN 1 ELSE 2 * Pow2(n - 1)

Abs(n) == IF n < 0 THEN -n ELSE n

\* ------------------------------------------------------------- Go values

Kind(x) == x[1]
Payload(x) == x[2]

Nil == <<"nil", <<>>>>

IntKinds == {"int", "int32", "int64", "uint", "uint32", "uint64"}
FloatKinds == {"float32", "float64"}
NumberKinds == IntKinds \cup FloatKinds
NumberSliceKinds == {"[]int", "[]int32", "[]int64", "[]uint", "[]uint32", "[]uint64",
                     "[]float32", "[]float64"}
ElemKind(k) == CASE k = "[]int" -> "int"
                 [] k = "[]int32" -> "int32"
                 [] k = "[]int64" -> "int64"
                 [] k = "[]uint" -> "uint"
                 [] k = "[]uint32" -> "uint32"
                 [] k = "[]uint64" -> "uint64"
                 [] k = "[]float32" -> "float32"
                 [] k = "[]float64" -> "float64"

\* Width of an integer type on the build at hand.
Width(k) == CASE k \in {"int", "uint"} -> intSize
              [] k \in {"int32", "uint32"} -> Bits32
              [] k \in {"int64", "uint64"} -> Bits64
Signed(k) == k \in {"int", "int32", "int64"}
MinOf(k) == IF Signed(k) THEN -Pow2(Width(k) - 1) ELSE 0
MaxOf(k) == IF Signed(k) THEN Pow2(Width(k) - 1) - 1 ELSE Pow2(Width(k)) - 1

\* len() of a slice or of a pointer-free sequence.
SliceLen(s) == IF s = <<>> THEN 0 ELSE Len(s[1])

EmptyMap == [k \in {} |-> Nil]

\* ------------------------------------------------------------- text

Digit == <<"0", "1", "2", "3", "4", "5", "6", "7", "8", "9">>
IsDigit(c) == \E d \in 1..10 : Digit[d] = c
DigitVal(c) == (CHOOSE d \in 1..10 : Digit[d] = c) - 1

RECURSIVE FormatNat(_)
FormatNat(n) == IF n < 10 THEN <<Digit[n + 1]>>
                ELSE Append(FormatNat(n \div 10), Digit[(n % 10) + 1])

\* The sign slip: the magnitude is printed without its sign.
FormatIntUnsigned(n) == FormatNat(Abs(n))

\* fmt.Sprint of an integer: decimal digits, "-" before a negative one.
FormatInt(n) == IF n < 0 THEN <<"-">> \o FormatNat(-n) ELSE FormatNat(n)

\* fmt.Sprint of a float (%v, the shortest text that reads back): h halves.
FormatFloat(h) == IF h % 2 = 0 THEN FormatInt(h \div 2)
                  ELSE (IF h < 0 THEN <<"-">> ELSE <<>>)
                       \o FormatNat(Abs(h) \div 2) \o <<".", "5">>

Sprint(x) == IF Kind(x) \in FloatKinds THEN FormatFloat(Payload(x))
             ELSE FormatInt(Payload(x))

RECURSIVE ParseNat(_)
ParseNat(s) == IF s = <<>> THEN 0
               ELSE 10 * ParseNat(SubSeq(s, 1, Len(s) - 1)) + DigitVal(s[Len(s)])

\* strconv.Atoi: an optional sign and decimal digits. A syntax error gives 0,
\* a value outside int gives the nearest bound of int; err tells which.
Atoi(s) ==
    LET signed == s # <<>> /\ s[1] \in {"+", "-"}
        digits == IF signed THEN Tail(s) ELSE s
        neg == signed /\ s[1] = "-"
    IN  IF digits = <<>> \/ \E i \in 1..Len(digits) : ~IsDigit(digits[i])
        THEN [n |-> 0, err |-> "syntax"]
        ELSE LET m == ParseNat(digits)
             IN  IF neg /\ m > Pow2(intSize - 1)
                 THEN [n |-> MinOf("int"), err |-> "range"]
                 ELSE IF ~neg /\ m > MaxOf("int")
                 THEN [n |-> MaxOf("int"), err |-> "range"]
                 ELSE [n |-> IF neg THEN -m ELSE m, err |-> "none"]

\* ------------------------------------------------------------- AttributeValue

EmptyAV == [S |-> <<>>, N |-> <<>>, B |-> <<>>, BOOL |-> <<>>, SS |-> <<>>,
            BS |-> <<>>, NS |-> <<>>, M |-> <<>>, L |-> <<>>]

\* The values read through a sequence of pointers.
Deref(ptrs, cells) == [i \in 1..Len(ptrs) |-> cells[ptrs[i]]]

\* A slice built by append from a nil slice: nil when nothing was appended.
Appended(s) == IF s = <<>> THEN <<>> ELSE <<s>>

createPointerSliceString(values) ==
    LET n == SliceLen(values)
        str == [i \in 1..n |-> values[1][i]]
        p == [i \in 1..n |-> i]
    IN  Appended(Deref(p, str))

\* The shared-variable slip: every element points to one variable.
MarshalStringSliceAliased(x) ==
    LET n == SliceLen(Payload(x))
        s == [i \in 1..n |-> Sprint(<<ElemKind(Kind(x)), Payload(x)[1][i]>>)]
        data == [i \in 1..n |-> n]
    IN  Appended(Deref(data, s))

MarshalStringSlice(x) ==
    LET n == SliceLen(Payload(x))
        s == [i \in 1..n |-> Sprint(<<ElemKind(Kind(x)), Payload(x)[1][i]>>)]
        data == [i \in 1..n |-> i]
    IN  Appended(Deref(data, s))

RECURSIVE createAttributeValue(_), Marshal(_), getItemValue(_), Unmarshal(_)

\* The result of a call that may panic.
Returned(av) == [panic |-> FALSE, av |-> av]
Panicked == [panic |-> TRUE, av |-> EmptyAV]

\* The second-slot slip: a number is kept as text in the String slot too.
createAttributeValueKeepsText(x) ==
    LET k == Kind(x)
    IN  CASE k = "string" -> Returned([EmptyAV EXCEPT !.S = <<Payload(x)>>])
          [] k \in NumberKinds ->
               Returned([EmptyAV EXCEPT !.N = <<Sprint(x)>>, !.S = <<Sprint(x)>>])
          [] k = "[]byte" -> Returned([EmptyAV EXCEPT !.B = Payload(x)])
          [] k = "bool" -> Returned([EmptyAV EXCEPT !.BOOL = <<Payload(x)>>])
          [] k = "[]string" ->
               Returned([EmptyAV EXCEPT !.SS = createPointerSliceString(Payload(x))])
          [] k = "[][]byte" -> Returned([EmptyAV EXCEPT !.BS = Payload(x)])
          [] k \in NumberSliceKinds ->
               Returned([EmptyAV EXCEPT !.NS = MarshalStringSlice(x)])
          [] k = "map[string]interface{}" ->
               LET r == Marshal(Payload(x))
               IN  IF r.panic THEN Panicked
                   ELSE Returned([EmptyAV EXCEPT !.M = <<r.data>>])
          [] k = "map[string]int" -> Panicked
          [] OTHER -> Returned(EmptyAV)

createAttributeValue(x) ==
    LET k == Kind(x)
    IN  CASE k = "string" -> Returned([EmptyAV EXCEPT !.S = <<Payload(x)>>])
          [] k \in NumberKinds -> Returned([EmptyAV EXCEPT !.N = <<Sprint(x)>>])
          [] k = "[]byte" -> Returned([EmptyAV EXCEPT !.B = Payload(x)])
          [] k = "bool" -> Returned([EmptyAV EXCEPT !.BOOL = <<Payload(x)>>])
          [] k = "[]string" ->
               Returned([EmptyAV EXCEPT !.SS = createPointerSliceString(Payload(x))])
          [] k = "[][]byte" -> Returned([EmptyAV EXCEPT !.BS = Payload(x)])
          [] k \in NumberSliceKinds ->
               Returned([EmptyAV EXCEPT !.NS = MarshalStringSlice(x)])
          [] k = "map[string]interface{}" ->
               LET r == Marshal(Payload(x))
               IN  IF r.panic THEN Panicked
                   ELSE Returned([EmptyAV EXCEPT !.M = <<r.data>>])
          \* reflect.Map of another type: the type assertion of line 57 panics
          [] k = "map[string]int" -> Panicked
          [] OTHER -> Returned(EmptyAV)

\* The shared-value slip: every key is given the attribute value of one field.
MarshalSharedValue(m) ==
    LET r == [key \in DOMAIN m |-> createAttributeValue(m[key])]
        last == CHOOSE key \in DOMAIN m : TRUE
    IN  IF \E key \in DOMAIN m : r[key].panic
        THEN [panic |-> TRUE, data |-> EmptyMap]
        ELSE [panic |-> FALSE, data |-> [key \in DOMAIN m |-> r[last].av]]

Marshal(m) ==
    LET r == [key \in DOMAIN m |-> createAttributeValue(m[key])]
    IN  IF \E key \in DOMAIN m : r[key].panic
        THEN [panic |-> TRUE, data |-> EmptyMap]
        ELSE [panic |-> FALSE, data |-> [key \in DOMAIN m |-> r[key].av]]

\* The skipping slip: an element that Atoi rejects is left out.
getNumberSetSkipping(ns) ==
    LET ok(t) == Atoi(t).err = "none"
        kept == SelectSeq(ns, ok)
    IN  [i \in 1..Len(kept) |-> Atoi(kept[i]).n]

getNumberSet(ns) ==
    LET vInt == [i \in 1..Len(ns) |-> Atoi(ns[i]).n]
        data == [i \in 1..Len(ns) |-> i]
    IN  Deref(data, vInt)

\* The nil-test slip: the buffer is tested against nil, not for its length.
hasBinaryNotNil(val) == val.B # <<>>

hasBinary(val) == SliceLen(val.B) > 0

\* The order slip: the String slot is read before the Number slot.
getItemValueStringFirst(val) ==
    IF val.S # <<>> THEN <<"string", val.S[1]>>
    ELSE IF val.N # <<>> THEN <<"int", Atoi(val.N[1]).n>>
    ELSE IF val.BOOL # <<>> THEN <<"bool", val.BOOL[1]>>
    ELSE IF hasBinary(val) THEN <<"[]byte", val.B>>
    ELSE IF val.M # <<>> /\ Cardinality(DOMAIN val.M[1]) > 0
         THEN <<"map[string]interface{}", Unmarshal(val.M)>>
    ELSE IF SliceLen(val.NS) > 0 THEN <<"[]*int", <<getNumberSet(val.NS[1])>>>>
    ELSE IF SliceLen(val.SS) > 0
         THEN <<"[]*string", <<[i \in 1..Len(val.SS[1]) |-> val.SS[1][i]]>>>>
    ELSE IF SliceLen(val.BS) > 0
         THEN <<"[][]byte", <<[i \in 1..Len(val.BS[1]) |-> val.BS[1][i]]>>>>
    ELSE IF SliceLen(val.L) > 0
         THEN <<"[]interface{}",
                <<[i \in 1..Len(val.L[1]) |-> getItemValue(val.L[1][i])]>>>>
    ELSE Nil

getItemValue(val) ==
    IF val.N # <<>> THEN <<"int", Atoi(val.N[1]).n>>
    ELSE IF val.S # <<>> THEN <<"string", val.S[1]>>
    ELSE IF val.BOOL # <<>> THEN <<"bool", val.BOOL[1]>>
    ELSE IF hasBinary(val) THEN <<"[]byte", val.B>>
    ELSE IF val.M # <<>> /\ Cardinality(DOMAIN val.M[1]) > 0
         THEN <<"map[string]interface{}", Unmarshal(val.M)>>
    ELSE IF SliceLen(val.NS) > 0 THEN <<"[]*int", <<getNumberSet(val.NS[1])>>>>
    ELSE IF SliceLen(val.SS) > 0
         THEN <<"[]*string", <<[i \in 1..Len(val.SS[1]) |-> val.SS[1][i]]>>>>
    ELSE IF SliceLen(val.BS) > 0
         THEN <<"[][]byte", <<[i \in 1..Len(val.BS[1]) |-> val.BS[1][i]]>>>>
    ELSE IF SliceLen(val.L) > 0
         THEN <<"[]interface{}",
                <<[i \in 1..Len(val.L[1]) |-> getItemValue(val.L[1][i])]>>>>
    ELSE Nil

\* The abort slip: a Number that Atoi rejects ends the decode of the item.
UnmarshalAborting(it) ==
    IF it = <<>> THEN EmptyMap
    ELSE IF \E key \in DOMAIN it[1] :
              it[1][key].N # <<>> /\ Atoi(it[1][key].N[1]).err # "none"
    THEN EmptyMap
    ELSE [key \in DOMAIN it[1] |-> getItemValue(it[1][key])]

Unmarshal(it) ==
    IF it = <<>> THEN EmptyMap
    ELSE [key \in DOMAIN it[1] |-> getItemValue(it[1][key])]

\* ------------------------------------------------------------- inputs

Keys == {"a", "b"}

\* Every sequence over S of length 1..n.
SeqsUpTo(S, n) == UNION {[1..k -> S] : k \in 1..n}

\* Every map from a subset of Keys to S.
MapsOver(S) == UNION {[D -> S] : D \in SUBSET Keys}

\* The ends of a type's range, the values around zero and the ends of int.
IntValues(k) ==
    {n \in {MinOf(k), -1, 0, 1, MaxOf(k), MinOf("int"), MaxOf("int"), MaxOf("int") + 1} :
       MinOf(k) <= n /\ n <= MaxOf(k)}
Ints == UNION {{<<k, n>> : n \in IntValues(k)} : k \in IntKinds}
HalfValues == {-3, 0, 1, 4}
Floats == {<<k, h>> : k \in FloatKinds, h \in HalfValues}
Texts == {<<>>, <<"a">>, <<"1", "2">>}
Buffers == {<<>>, <<1>>, <<0, 255>>}
Slices(S) == {<<>>, <<<<>>>>} \cup {<<s>> : s \in SeqsUpTo(S, MaxLen)}
NumberSlices ==
    UNION {{<<k, s>> : s \in Slices(IF ElemKind(k) \in FloatKinds THEN HalfValues
                                     ELSE IntValues(ElemKind(k)))}
           : k \in NumberSliceKinds}
Unmatched == {Nil, <<"func", <<>>>>, <<"struct", <<>>>>, <<"*string", <<>>>>,
              <<"[]interface{}", <<>>>>}
OtherMaps == {<<"map[string]int", m>> : m \in MapsOver({1})}

Scalars ==
    {<<"string", s>> : s \in Texts} \cup Ints \cup Floats
    \cup {<<"bool", b>> : b \in BOOLEAN}
    \cup {<<"[]byte", <<>>>>} \cup {<<"[]byte", <<b>>>> : b \in Buffers}
    \cup {<<"[]string", s>> : s \in Slices({<<"a">>, <<"b">>})}
    \cup {<<"[][]byte", s>> : s \in Slices({<<1>>, <<>>})}
    \cup NumberSlices \cup Unmatched \cup OtherMaps

\* The values given to the fields of a record.
FieldValues ==
    {<<"string", <<"a">>>>, <<"string", <<>>>>, <<"bool", TRUE>>,
     <<"int", 1>>, <<"int", MinOf("int")>>, <<"int64", MaxOf("int64")>>,
     <<"uint64", MaxOf("uint64")>>, <<"float64", 1>>,
     <<"[]byte", <<<<1>>>>>>, <<"[]byte", <<<<>>>>>>,
     <<"[]string", <<<<<<"a">>, <<"b">>>>>>>>, <<"[]int", <<<<1, 0>>>>>>,
     Nil, <<"func", <<>>>>}
InnerValues ==
    {<<"string", <<"a">>>>, <<"int", -1>>, <<"[]byte", <<<<>>>>>>,
     <<"map[string]int", [k \in {"a"} |-> 1]>>}
InnerMaps == {<<"map[string]interface{}", m>> : m \in MapsOver(InnerValues)}
MidMaps ==
    {<<"map[string]interface{}", [k \in {"b"} |-> m]>> : m \in InnerMaps}
Records == MapsOver(FieldValues \cup InnerMaps \cup MidMaps)

Inputs == Scalars \cup {<<"map[string]interface{}", m>> : m \in MapsOver(InnerValues \cup InnerMaps)}

\* Number texts as they come from storage, some of which Atoi rejects.
NumTexts == {FormatInt(0), FormatInt(7), <<"-", "3">>, <<"+", "5">>,
             <<"1", ".", "5">>, <<"x">>, <<>>, <<"-">>,
             FormatInt(MaxOf("int")), FormatInt(MaxOf("int") + 1),
             FormatInt(MinOf("int")), FormatInt(MinOf("int") - 1)}

WireLeaves == {EmptyAV, [EmptyAV EXCEPT !.S = <<<<"a">>>>],
               [EmptyAV EXCEPT !.N = <<FormatInt(7)>>]}

\* Attribute values with any combination of slots set.
WireSlots ==
    [S : {<<>>, <<<<"a">>>>},
     N : {<<>>, <<FormatInt(7)>>, <<<<"1", ".", "5">>>>},
     B : {<<>>, <<<<>>>>, <<<<1>>>>},
     BOOL : {<<>>, <<TRUE>>},
     SS : {<<>>, <<<<<<"a">>, <<"b">>>>>>},
     BS : {<<>>, <<<<<<1>>>>>>},
     NS : {<<>>, <<<<>>>>, <<<<FormatInt(7), <<"x">>>>>>},
     M : {<<>>, <<EmptyMap>>, <<[k \in {"a"} |-> [EmptyAV EXCEPT !.S = <<<<"b">>>>]]>>},
     L : {<<>>, <<<<>>>>, <<<<EmptyAV, [EmptyAV EXCEPT !.N = <<FormatInt(1)>>]>>>>}]

WireNumbers ==
    {[EmptyAV EXCEPT !.N = <<t>>] : t \in NumTexts}
    \cup {[EmptyAV EXCEPT !.NS = <<s>>] : s \in SeqsUpTo(NumTexts, MaxLen)}

WireValues == WireSlots \cup WireNumbers

WireFields == {[EmptyAV EXCEPT !.N = <<t>>] : t \in NumTexts}
              \cup WireLeaves
              \cup {[EmptyAV EXCEPT !.M = <<[k \in {"a"} |-> [EmptyAV EXCEPT !.N = <<<<"x">>>>]]>>]}
WireItems == {<<>>} \cup {<<m>> : m \in MapsOver(WireFields)}

\* ------------------------------------------------------------- the calls

Init ==
    /\ intSize \in {Bits32, Bits64}
    /\ pc = "idle"
    /\ v = Nil
    /\ tv = EmptyAV
    /\ out = Nil
    /\ item = EmptyMap
    /\ wire = <<>>
    /\ rec = EmptyMap

\* createAttributeValue(x), returning or panicking.
Encode ==
    /\ pc = "idle"
    /\ \E x \in Inputs :
         LET r == createAttributeValue(x)
         IN  /\ v' = x
             /\ tv' = r.av
             /\ pc' = IF r.panic THEN "encode panic" ELSE "encoded"
    /\ UNCHANGED <<intSize, out, item, wire, rec>>

\* An attribute value read from storage.
Receive ==
    /\ pc = "idle"
    /\ \E a \in WireValues : tv' = a
    /\ pc' = "received"
    /\ UNCHANGED <<intSize, v, out, item, wire, rec>>

\* getItemValue(tv), of an encoded value or of a received one.
Decode ==
    /\ pc \in {"encoded", "received"}
    /\ out' = getItemValue(tv)
    /\ pc' = IF pc = "encoded" THEN "round trip" ELSE "decoded"
    /\ UNCHANGED <<intSize, v, tv, item, wire, rec>>

\* Marshal(m), returning or panicking.
MarshalItem ==
    /\ pc = "idle"
    /\ \E m \in Records :
         LET r == Marshal(m)
         IN  /\ item' = m
             /\ wire' = IF r.panic THEN <<>> ELSE <<r.data>>
             /\ pc' = IF r.panic THEN "marshal panic" ELSE "marshalled"
    /\ UNCHANGED <<intSize, v, tv, out, rec>>

\* An item read from storage, or no item.
ReceiveItem ==
    /\ pc = "idle"
    /\ \E w \in WireItems : wire' = w
    /\ pc' = "fetched"
    /\ UNCHANGED <<intSize, v, tv, out, item, rec>>

\* Unmarshal(wire), of a marshalled item or of a fetched one.
UnmarshalItem ==
    /\ pc \in {"marshalled", "fetched"}
    /\ rec' = Unmarshal(wire)
    /\ pc' = IF pc = "marshalled" THEN "record round trip" ELSE "unmarshalled"
    /\ UNCHANGED <<intSize, v, tv, out, item, wire>>

Next == Encode \/ Receive \/ Decode \/ MarshalItem \/ ReceiveItem \/ UnmarshalItem

Spec == Init /\ [][Next]_vars

\* ------------------------------------------------------------- properties

Slots == <<"N", "S", "BOOL", "B", "M", "NS", "SS", "BS", "L">>

\* A slot as the decoder reads it: a pointer that is set, a collection with
\* at least one element.
Populated(val, slot) ==
    CASE slot \in {"N", "S", "BOOL"} -> val[slot] # <<>>
      [] slot = "M" -> val.M # <<>> /\ DOMAIN val.M[1] # {}
      [] OTHER -> SliceLen(val[slot]) > 0
PopulatedSlots(val) == {i \in 1..Len(Slots) : Populated(val, Slots[i])}
SetSlots(val) == {i \in 1..Len(Slots) : val[Slots[i]] # <<>>}
OnlySlot(val, slot) == [EmptyAV EXCEPT ![slot] = val[slot]]
Min(S) == CHOOSE n \in S : \A m \in S : n <= m

\* An integer literal as Atoi reads one: an optional sign, then digits only.
LiteralDigits(t) == IF t # <<>> /\ t[1] \in {"+", "-"} THEN Tail(t) ELSE t
IsLiteral(t) ==
    /\ LiteralDigits(t) # <<>>
    /\ \A i \in 1..Len(LiteralDigits(t)) : IsDigit(LiteralDigits(t)[i])
LiteralValue(t) ==
    IF t[1] = "-" THEN -ParseNat(LiteralDigits(t)) ELSE ParseNat(LiteralDigits(t))
InInt(n) == MinOf("int") <= n /\ n <= MaxOf("int")
Parseable(t) == IsLiteral(t) /\ InInt(LiteralValue(t))
\* What the decoder makes of a Number text.
Decoded(t) ==
    IF ~IsLiteral(t) THEN 0
    ELSE IF LiteralValue(t) > MaxOf("int") THEN MaxOf("int")
    ELSE IF LiteralValue(t) < MinOf("int") THEN MinOf("int")
    ELSE LiteralValue(t)

MatchedByRule(x) ==
    Kind(x) \in {"string", "[]byte", "bool", "[]string", "[][]byte",
                 "map[string]interface{}"} \cup NumberKinds \cup NumberSliceKinds

\* C1: createAttributeValue never fails, and a value that no dispatch rule
\* matches (nil, an unsupported kind, a map that is not map[string]interface{})
\* gives the attribute value with no slot set.
C1_EncodeIsTotal ==
    pc \in {"encoded", "encode panic"} =>
        /\ pc = "encoded"
        /\ ~MatchedByRule(v) => tv = EmptyAV

RECURSIVE NonEmptyEntry(_), RoundTripped(_)
NonEmptyEntry(x) ==
    CASE Kind(x) \in {"string", "bool"} -> TRUE
      [] Kind(x) \in IntKinds -> InInt(Payload(x))
      [] Kind(x) = "[]byte" -> SliceLen(Payload(x)) > 0
      [] Kind(x) = "map[string]interface{}" ->
           /\ DOMAIN Payload(x) # {}
           /\ \A k \in DOMAIN Payload(x) : NonEmptyEntry(Payload(x)[k])
      [] OTHER -> FALSE
\* The scalar round-trip rules: text, booleans and buffers come back as they
\* were, an integer comes back as an int, a map entry by entry.
RoundTripped(x) ==
    CASE Kind(x) \in IntKinds -> <<"int", Payload(x)>>
      [] Kind(x) = "map[string]interface{}" ->
           <<"map[string]interface{}",
             [k \in DOMAIN Payload(x) |-> RoundTripped(Payload(x)[k])]>>
      [] OTHER -> x

\* C2: Unmarshal(Marshal(m)) of a map whose entries are strings, booleans,
\* integers within int, non-empty buffers and non-empty nested maps of the
\* same has the field names of m, and every field holds its value passed
\* through the scalar round-trip rules, at every depth.
C2_RecordRoundTrip ==
    (pc = "record round trip" /\ \A k \in DOMAIN item : NonEmptyEntry(item[k])) =>
        /\ DOMAIN rec = DOMAIN item
        /\ \A k \in DOMAIN item : rec[k] = RoundTripped(item[k])

C2_Witness ==
    /\ pc = "record round trip"
    /\ \A k \in DOMAIN item : NonEmptyEntry(item[k])
    /\ \E k \in DOMAIN item :
         /\ Kind(item[k]) = "map[string]interface{}"
         /\ \E j \in DOMAIN Payload(item[k]) :
              Kind(Payload(item[k])[j]) = "map[string]interface{}"
    /\ \E k \in DOMAIN item : Kind(item[k]) = "[]byte"

\* C3: an integer of any of the six integer types that lies within int
\* decodes, after encoding, to the int of the same value.
C3_IntegerRoundTrip ==
    (pc = "round trip" /\ Kind(v) \in IntKinds /\ InInt(Payload(v))) =>
        out = <<"int", Payload(v)>>

C3_Witness ==
    /\ pc = "round trip"
    /\ Kind(v) = "int64"
    /\ Payload(v) = MinOf("int")
    /\ out = <<"int", MinOf("int")>>

\* The attribute value holds a Number set and nothing the decoder reads first.
IsNumberSet(val) == PopulatedSlots(val) # {} /\ Slots[Min(PopulatedSlots(val))] = "NS"

\* C4, as claimed: decoding a Number set drops the elements that fail to parse,
\* so the result holds the parseable elements only, in their order.
C4_UnparseableDropped ==
    (pc = "decoded" /\ IsNumberSet(tv)) =>
        LET kept == SelectSeq(tv.NS[1], Parseable)
        IN  out = <<"[]*int", <<[i \in 1..Len(kept) |-> LiteralValue(kept[i])]>>>>

\* C4, amended: decoding a Number set gives one integer for every element, in
\* the order of the set: the value of an element that parses, 0 for one that
\* is no integer literal, the nearest end of int for a literal outside int.
C4_UnparseableKeptAsZero ==
    (pc = "decoded" /\ IsNumberSet(tv)) =>
        /\ Kind(out) = "[]*int"
        /\ Len(Payload(out)[1]) = Len(tv.NS[1])
        /\ \A i \in 1..Len(tv.NS[1]) : Payload(out)[1][i] = Decoded(tv.NS[1][i])

C4_Witness ==
    /\ pc = "decoded"
    /\ IsNumberSet(tv)
    /\ Len(tv.NS[1]) = 2
    /\ ~Parseable(tv.NS[1][1])
    /\ Parseable(tv.NS[1][2])
    /\ LiteralValue(tv.NS[1][2]) # 0
    /\ Payload(out)[1] = <<0, LiteralValue(tv.NS[1][2])>>

NumberOf(t) == [EmptyAV EXCEPT !.N = <<t>>]
BadNumber(val) == val.N # <<>> /\ ~Parseable(val.N[1])

\* C5, as claimed: a field whose Number text does not parse decodes to an
\* outcome that no valid Number decodes to, and the other fields decode.
C5_DefectDistinguishable ==
    (pc = "unmarshalled" /\ wire # <<>>) =>
        /\ DOMAIN rec = DOMAIN wire[1]
        /\ \A k \in DOMAIN wire[1] :
             BadNumber(wire[1][k]) =>
                 \A t \in {FormatInt(n) : n \in MinOf("int")..MaxOf("int")} :
                     rec[k] # getItemValue(NumberOf(t))

\* C5, amended: a field whose Number text does not parse decodes to an int,
\* 0 when the text is no integer literal ("1.5") and the nearest end of int
\* when the literal is outside int, which is what the valid Number of that
\* value decodes to; no defect is recorded, and every other field of the
\* record decodes as it does alone.
C5_UnparseableNumberIsAnInt ==
    (pc = "unmarshalled" /\ wire # <<>>) =>
        /\ DOMAIN rec = DOMAIN wire[1]
        /\ \A k \in DOMAIN wire[1] :
             BadNumber(wire[1][k]) =>
                 /\ rec[k] = <<"int", Decoded(wire[1][k].N[1])>>
                 /\ rec[k] = getItemValue(NumberOf(FormatInt(Decoded(wire[1][k].N[1]))))
                 /\ \A j \in DOMAIN wire[1] \ {k} : rec[j] = getItemValue(wire[1][j])

C5_Witness ==
    /\ pc = "unmarshalled"
    /\ wire # <<>>
    /\ DOMAIN wire[1] = {"a", "b"}
    /\ wire[1]["a"].N = <<<<"1", ".", "5">>>>
    /\ wire[1]["b"].S # <<>>
    /\ rec["a"] = <<"int", 0>>
    /\ Kind(rec["b"]) = "string"

\* C6: getItemValue reads the slots in the order Number, String, Boolean,
\* Binary, Map, NumberSet, StringSet, BinarySet, List; its result is the result
\* for the first populated slot alone, whatever else is set, and nil when no
\* slot is populated.
C6_FirstPopulatedSlotWins ==
    pc \in {"decoded", "round trip"} =>
        IF PopulatedSlots(tv) = {} THEN out = Nil
        ELSE /\ out = getItemValue(OnlySlot(tv, Slots[Min(PopulatedSlots(tv))]))
             /\ out # Nil

C6_Witness ==
    /\ pc = "decoded"
    /\ Cardinality(PopulatedSlots(tv)) = Len(Slots)
    /\ Kind(out) = "int"

\* C7: a non-empty byte buffer decodes, after encoding, to itself; the empty
\* buffer decodes to nil; a Map with no entry decodes to nil.
C7_BufferRoundTrip ==
    /\ (pc = "round trip" /\ Kind(v) = "[]byte") =>
           out = IF SliceLen(Payload(v)) > 0 THEN v ELSE Nil
    /\ (pc \in {"round trip", "decoded"} /\ tv.M # <<>> /\ DOMAIN tv.M[1] = {}
          /\ tv = OnlySlot(tv, "M")) => out = Nil

C7_Witness ==
    /\ pc = "round trip"
    /\ v = <<"[]byte", <<<<>>>>>>
    /\ tv.B = <<<<>>>>
    /\ out = Nil

IntSliceKinds == {"[]int", "[]int32", "[]int64", "[]uint", "[]uint32", "[]uint64"}

\* C8, as claimed: every slice of integers encodes to a Number set of the
\* elements' decimal texts, in order, and decodes to the same integers.
C8_EverySliceRoundTrips ==
    (pc = "round trip" /\ Kind(v) \in IntSliceKinds) =>
        /\ SliceLen(tv.NS) = SliceLen(Payload(v))
        /\ Kind(out) = "[]*int"
        /\ Len(Payload(out)[1]) = SliceLen(Payload(v))
        /\ \A i \in 1..SliceLen(Payload(v)) : Payload(out)[1][i] = Payload(v)[1][i]

\* C8, amended: a non-empty slice of integers encodes to a Number set of the
\* elements' decimal texts, in order and of the same length, and decodes to a
\* sequence of the same length holding, in order, each element that lies
\* within int (an element outside int comes back as the nearest end of int);
\* a slice with no element encodes to no Number set and decodes to nil.
C8_IntegerSliceRoundTrip ==
    (pc = "round trip" /\ Kind(v) \in IntSliceKinds) =>
        IF SliceLen(Payload(v)) = 0 THEN tv = EmptyAV /\ out = Nil
        ELSE LET s == Payload(v)[1]
             IN  /\ tv = [EmptyAV EXCEPT !.NS = <<[i \in 1..Len(s) |-> FormatInt(s[i])]>>]
                 /\ Kind(out) = "[]*int"
                 /\ Len(Payload(out)[1]) = Len(s)
                 /\ \A i \in 1..Len(s) :
                      Payload(out)[1][i] =
                          IF InInt(s[i]) THEN s[i]
                          ELSE IF s[i] > 0 THEN MaxOf("int") ELSE MinOf("int")

C8_Witness ==
    /\ pc = "round trip"
    /\ v = <<"[]int", <<<<1, 0>>>>>>
    /\ tv.NS = <<<<<<"1">>, <<"0">>>>>>
    /\ out = <<"[]*int", <<<<1, 0>>>>>>

\* C9: Marshal always returns, and its result has the field names of the
\* record, each with createAttributeValue of the field's value, the fields
\* whose attribute value has no slot set included.
C9_MarshalKeepsEveryField ==
    pc \in {"marshalled", "marshal panic"} =>
        /\ pc = "marshalled"
        /\ DOMAIN wire[1] = DOMAIN item
        /\ \A k \in DOMAIN item :
             /\ ~createAttributeValue(item[k]).panic
             /\ wire[1][k] = createAttributeValue(item[k]).av

RECURSIVE AtMostOneSlot(_)
AtMostOneSlot(val) ==
    /\ Cardinality(SetSlots(val)) <= 1
    /\ val.M # <<>> => \A k \in DOMAIN val.M[1] : AtMostOneSlot(val.M[1][k])
    /\ val.L # <<>> => \A i \in 1..Len(val.L[1]) : AtMostOneSlot(val.L[1][i])

\* The value carries data for the slot its dispatch rule fills.
HasPayload(x) ==
    CASE Kind(x) \in {"string", "bool"} \cup NumberKinds -> TRUE
      [] Kind(x) \in {"[]byte", "[]string", "[][]byte"} \cup NumberSliceKinds ->
           SliceLen(Payload(x)) > 0
      [] Kind(x) = "map[string]interface{}" -> DOMAIN Payload(x) # {}
      [] OTHER -> FALSE

\* C10: an attribute value made by createAttributeValue has at most one slot
\* set, at every level of the tree, and exactly one populated slot when the
\* value matched a dispatch rule with a non-empty payload.
C10_AtMostOneSlot ==
    /\ pc \in {"encoded", "round trip"} =>
           /\ AtMostOneSlot(tv)
           /\ HasPayload(v) => Cardinality(PopulatedSlots(tv)) = 1
    /\ pc \in {"marshalled", "record round trip"} =>
           \A k \in DOMAIN item :
               /\ AtMostOneSlot(wire[1][k])
               /\ HasPayload(item[k]) => Cardinality(PopulatedSlots(wire[1][k])) = 1

C10_Witness ==
    /\ pc = "encoded"
    /\ tv.M # <<>>
    /\ \E k \in DOMAIN tv.M[1] :
         /\ tv.M[1][k].M # <<>>
         /\ \E j \in DOMAIN tv.M[1][k].M[1] : tv.M[1][k].M[1][j].N # <<>>

====
